---------------------------- MODULE Spec2Model ----------------------------
(***************************************************************************)
(* A model of parser-json-rs: the tokenizer (src/src/tokenize.rs) and the  *)
(* recursive-descent parser with its string unescaping                     *)
(* (src/src/parser.rs).                                                    *)
(*                                                                         *)
(* A Rust `char` is modelled by its code point (a natural number), a       *)
(* `String` / `Vec<char>` by a sequence of code points.  The source's      *)
(* cursors are 0-based; they are kept 0-based here and At(s, i) reads the  *)
(* element the source writes s[i].                                         *)
(***************************************************************************)
EXTENDS Integers, Sequences, FiniteSets, TLC

(***************************************************************************)
(* Characters the source names in its match arms and literals.             *)
(***************************************************************************)
LBrace == 123
RBrace == 125
LBracket == 91
RBracket == 93
Colon == 58
Comma == 44
Quote == 34
Backslash == 92
Minus == 45
Dot == 46
Ch_n == 110
Ch_t == 116
Ch_f == 102
Ch_b == 98
Ch_u == 117
Backspace == 8
Dc2 == 18
Newline == 10
CarriageReturn == 13
Tab == 9
FormFeed == 12
Space == 32
Digit0 == 48
Digit9 == 57

\* The letter of the tests' one-letter strings ("a")
Ch_a == 97

At(s, i) == s[i + 1]

\* char::is_ascii_whitespace: U+0020, U+0009, U+000A, U+000C, U+000D
is_ascii_whitespace(ch) == ch \in {Space, Tab, Newline, FormFeed, CarriageReturn}

\* char::is_ascii_digit
is_ascii_digit(ch) == ch >= Digit0 /\ ch <= Digit9

(***************************************************************************)
(* Tokens.  A Number carries the value of the parsed decimal text as a     *)
(* normalised pair: mantissa m and number e of decimal places              *)
(* (value = m / 10^e, no trailing zero in the fraction).                   *)
(***************************************************************************)
TokLeftCurlyBracket == [tok |-> "LeftCurlyBracket"]
TokRightCurlyBracket == [tok |-> "RightCurlyBracket"]
TokLeftSquareBracket == [tok |-> "LeftSquareBracket"]
TokRightSquareBracket == [tok |-> "RightSquareBracket"]
TokComma == [tok |-> "Comma"]
TokColon == [tok |-> "Colon"]
TokNull == [tok |-> "Null"]
TokFalse == [tok |-> "False"]
TokTrue == [tok |-> "True"]
TokNumber(n) == [tok |-> "Number", num |-> n]
TokString(s) == [tok |-> "String", str |-> s]

\* The keywords of the regex alternation, in the order it lists them.
KwNull == <<110, 117, 108, 108>>
KwFalse == <<102, 97, 108, 115, 101>>
KwTrue == <<116, 114, 117, 101>>
Keywords == <<KwNull, KwFalse, KwTrue>>

\* kw occurs in s starting at (0-based) position i
MatchesAt(s, kw, i) ==
    /\ i + Len(kw) <= Len(s)
    /\ \A k \in 1..Len(kw) : s[i + k] = kw[k]

(***************************************************************************)
(* Regex::captures(input) for (?<name>null|false|true): the leftmost match *)
(* anywhere in the whole input.  The length of the captured text, or 0     *)
(* when the input holds no keyword at all.                                 *)
(***************************************************************************)
RegexCaptureLen(input) ==
    LET hits == {i \in 0..(Len(input) - 1) :
                    \E j \in 1..Len(Keywords) : MatchesAt(input, Keywords[j], i)}
    IN  IF hits = {} THEN 0
        ELSE LET first == CHOOSE i \in hits : \A h \in hits : i <= h
                 j == CHOOSE j \in 1..Len(Keywords) :
                          /\ MatchesAt(input, Keywords[j], first)
                          /\ \A k \in 1..(j - 1) : ~MatchesAt(input, Keywords[k], first)
             IN  Len(Keywords[j])

\* Results of the tokenizer's helper functions: the Result value and the
\* cursor the call leaves behind.
NoToken == [tok |-> "none"]
TOk(token, i) == [st |-> "ok", token |-> token, err |-> "none", index |-> i]
TErr(e, i) == [st |-> "err", token |-> NoToken, err |-> e, index |-> i]
TPanic(i) == [st |-> "panic", token |-> NoToken, err |-> "none", index |-> i]

tokenize_literal(index, token, input) ==
    LET n == RegexCaptureLen(input)
    IN  IF n = 0 THEN TErr("UnfinishedLiteralValue", index)
        ELSE TOk(token, index + n - 1)


(***************************************************************************)
(* str::parse::<f64> on a text of ASCII digits with at most one '.': the   *)
(* decimal value, or ParseFloatError when the text holds no digit.  The    *)
(* texts explored are short, so the value is exact in an f64.              *)
(***************************************************************************)
RECURSIVE DigitsValue(_, _, _)
DigitsValue(text, k, acc) ==
    IF k > Len(text) THEN acc
    ELSE IF text[k] = Dot THEN DigitsValue(text, k + 1, acc)
    ELSE DigitsValue(text, k + 1, acc * 10 + (text[k] - Digit0))

RECURSIVE Normalise(_, _)
Normalise(m, e) ==
    IF e > 0 /\ m % 10 = 0 THEN Normalise(m \div 10, e - 1) ELSE [m |-> m, e |-> e]

ParseF64(text) ==
    LET dots == {k \in 1..Len(text) : text[k] = Dot}
        nDigits == Len(text) - Cardinality(dots)
        places == IF dots = {} THEN 0 ELSE Len(text) - (CHOOSE k \in dots : TRUE)
    IN  IF nDigits = 0 \/ Cardinality(dots) > 1
        THEN [ok |-> FALSE, val |-> [m |-> 0, e |-> 0]]
        ELSE [ok |-> TRUE, val |-> Normalise(DigitsValue(text, 1, 0), places)]

\* -1.0 * f
Negate(f) == [m |-> 0 - f.m, e |-> f.e]

\* The while loop of tokenize_float: the cursor, the collected text and the
\* sign flag when the loop ends.
RECURSIVE FloatLoop(_, _, _, _, _)
FloatLoop(chars, index, unparsed_num, has_decimal, is_negative) ==
    IF ~(index < Len(chars))
    THEN [index |-> index, text |-> unparsed_num, neg |-> is_negative]
    ELSE LET ch == At(chars, index)
         IN  IF is_ascii_digit(ch)
             THEN FloatLoop(chars, index + 1, Append(unparsed_num, ch),
                            has_decimal, is_negative)
             ELSE IF ch = Dot /\ ~has_decimal
             THEN FloatLoop(chars, index + 1, Append(unparsed_num, Dot),
                            TRUE, is_negative)
             ELSE IF ch = Minus
             THEN FloatLoop(chars, index + 1, unparsed_num, has_decimal, TRUE)
             ELSE [index |-> index, text |-> unparsed_num, neg |-> is_negative]

tokenize_float(chars, index) ==
    LET r == FloatLoop(chars, index, <<>>, FALSE, FALSE)
        p == ParseF64(r.text)
    IN  IF p.ok
        THEN TOk(TokNumber(IF r.neg THEN Negate(p.val) ELSE p.val), r.index)
        ELSE TErr("ParseNumberError", r.index)

\* The loop of tokenize_string, entered with the cursor on the opening quote.
RECURSIVE StringLoop(_, _, _, _)
StringLoop(chars, index, string, is_escaping) ==
    LET i == index + 1
    IN  IF i >= Len(chars) THEN TErr("UnclosedQuotes", i)
        ELSE LET ch == At(chars, i)
             IN  IF ch = Quote /\ ~is_escaping THEN TOk(TokString(string), i)
                 ELSE StringLoop(chars, i, Append(string, ch),
                                 IF ch = Backslash THEN ~is_escaping ELSE FALSE)

tokenize_string(chars, index) == StringLoop(chars, index, <<>>, FALSE)

\* The whitespace loop at the head of make_token: the cursor on the first
\* character that is not whitespace, or -1 when the input ends first.
RECURSIVE SkipWhitespace(_, _)
SkipWhitespace(chars, index) ==
    IF ~is_ascii_whitespace(At(chars, index)) THEN index
    ELSE IF index + 1 >= Len(chars) THEN -1
    ELSE SkipWhitespace(chars, index + 1)

(***************************************************************************)
(* make_token.  The guard of the number arm evaluates chars[*index + 1]    *)
(* whenever ch is '-': with '-' as the last character that index is out of *)
(* bounds and the call panics.                                             *)
(***************************************************************************)
make_token(chars, index, input) ==
    LET i == SkipWhitespace(chars, index)
    IN  IF i = -1 THEN TErr("UnexpectedEof", Len(chars))
        ELSE LET ch == At(chars, i)
             IN       IF ch = LBrace THEN TOk(TokLeftCurlyBracket, i)
                 ELSE IF ch = RBrace THEN TOk(TokRightCurlyBracket, i)
                 ELSE IF ch = LBracket THEN TOk(TokLeftSquareBracket, i)
                 ELSE IF ch = RBracket THEN TOk(TokRightSquareBracket, i)
                 ELSE IF ch = Colon THEN TOk(TokColon, i)
                 ELSE IF ch = Comma THEN TOk(TokComma, i)
                 ELSE IF ch = Ch_n THEN tokenize_literal(i, TokNull, input)
                 ELSE IF ch = Ch_t THEN tokenize_literal(i, TokTrue, input)
                 ELSE IF ch = Ch_f THEN tokenize_literal(i, TokFalse, input)
                 ELSE IF is_ascii_digit(ch) THEN tokenize_float(chars, i)
                 ELSE IF ch = Minus /\ i + 1 >= Len(chars) THEN TPanic(i)
                 ELSE IF ch = Minus /\ is_ascii_digit(At(chars, i + 1))
                      THEN tokenize_float(chars, i)
                 ELSE IF ch = Quote THEN tokenize_string(chars, i)
                 ELSE TErr("CharNotRecognized", i)

(***************************************************************************)
(* State.                                                                  *)
(*   tokenize:     input (the chars), index, tokens, tstatus, terr         *)
(*   parse_string: raw (the chars of s), pos (how many chars `chars` has   *)
(*                 yielded), output, is_escaping, sstatus, serr            *)
(*   parse_tokens: ptokens (the slice), pindex (the caller's cursor),      *)
(*                 pstatus, presult, perr                                  *)
(* A status is "idle" (no call in progress), "running", "ok" (returned     *)
(* Ok), "err" (returned Err) or "panic" (the call aborted).               *)
(***************************************************************************)
VARIABLES input, index, tokens, tstatus, terr,
          raw, pos, output, is_escaping, sstatus, serr,
          ptokens, pindex, pstatus, presult, perr

tvars == <<input, index, tokens, tstatus, terr>>
svars == <<raw, pos, output, is_escaping, sstatus, serr>>
pvars == <<ptokens, pindex, pstatus, presult, perr>>
vars == <<tvars, svars, pvars>>

RECURSIVE Concat(_)
Concat(ss) == IF ss = <<>> THEN <<>> ELSE Head(ss) \o Concat(Tail(ss))

SeqsUpTo(S, n) == UNION {[1..k -> S] : k \in 0..n}

(***************************************************************************)
(* The inputs of tokenize that are explored: every concatenation of at     *)
(* most MaxUnits pieces of text.                                           *)
(***************************************************************************)
MaxUnits == 3

ValidUnits ==
    { <<LBrace>>, <<RBrace>>, <<LBracket>>, <<RBracket>>, <<Comma>>, <<Colon>>,
      KwNull, KwTrue, KwFalse,
      <<Digit0 + 1>>,
      <<Quote, Ch_a, Quote>> }

OtherUnits ==
    { <<Space>>, <<Newline>>, <<Minus>>, <<Dot>>, <<Ch_n>>,
      <<Quote>>, <<Quote, Backslash>> }

TokenizeInputs == {Concat(us) : us \in SeqsUpTo(ValidUnits \cup OtherUnits, MaxUnits)}

TIdle ==
    /\ input = <<>> /\ index = 0 /\ tokens = <<>>
    /\ tstatus = "idle" /\ terr = "none"

\* tokenize, lines 47-49: the state on entry to the while loop
TokenizeInit ==
    /\ input \in TokenizeInputs
    /\ index = 0
    /\ tokens = <<>>
    /\ tstatus = "running"
    /\ terr = "none"

\* One iteration of the while loop of tokenize: make_token(...)?, push, index += 1
TokenizeStep ==
    /\ tstatus = "running"
    /\ index < Len(input)
    /\ LET r == make_token(input, index, input)
       IN  /\ tokens' = IF r.st = "ok" THEN Append(tokens, r.token) ELSE tokens
           /\ index' = IF r.st = "ok" THEN r.index + 1 ELSE index
           /\ tstatus' = IF r.st = "ok" THEN "running" ELSE r.st
           /\ terr' = r.err
    /\ UNCHANGED <<input, svars, pvars>>

\* The loop condition fails: Ok(tokens)
TokenizeReturn ==
    /\ tstatus = "running"
    /\ ~(index < Len(input))
    /\ tstatus' = "ok"
    /\ UNCHANGED <<input, index, tokens, terr, svars, pvars>>

\* tokenize as the function of its input that the loop computes
RECURSIVE TokenizeFrom(_, _, _)
TokenizeFrom(chars, i, toks) ==
    IF ~(i < Len(chars)) THEN [st |-> "ok", tokens |-> toks, err |-> "none"]
    ELSE LET r == make_token(chars, i, chars)
         IN  IF r.st = "ok" THEN TokenizeFrom(chars, r.index + 1, Append(toks, r.token))
             ELSE [st |-> r.st, tokens |-> <<>>, err |-> r.err]

tokenize(chars) == TokenizeFrom(chars, 0, <<>>)

(***************************************************************************)
(* parse_string                                                            *)
(***************************************************************************)

\* to_digit with radix 10 where 16 is meant
to_digit10(ch) == IF ch >= 48 /\ ch <= 57 THEN ch - 48 ELSE -1

\* char::to_digit(16): the digit's value, or -1 for None
to_digit16(ch) ==
    IF ch >= 48 /\ ch <= 57 THEN ch - 48            \* '0'..'9'
    ELSE IF ch >= 97 /\ ch <= 102 THEN ch - 97 + 10  \* 'a'..'f'
    ELSE IF ch >= 65 /\ ch <= 70 THEN ch - 65 + 10   \* 'A'..'F'
    ELSE -1

\* char::from_u32: the char, or -1 for None (a surrogate, or above U+10FFFF)
from_u32(n) ==
    IF (n >= 55296 /\ n <= 57343) \/ n > 1114111 THEN -1 ELSE n

RECURSIVE Pow16(_)
Pow16(k) == IF k = 0 THEN 1 ELSE 16 * Pow16(k - 1)

SOk(ch, p) == [st |-> "ok", ch |-> ch, err |-> "none", pos |-> p]
SErr(e, p) == [st |-> "err", ch |-> 0, err |-> e, pos |-> p]

(***************************************************************************)
(* The 'u' arm: `for i in 0..4`, each round taking chars.next() (or        *)
(* UnfinishedEscape), its to_digit(16) (or InvalidHexValue) and adding     *)
(* 16^(3-i) * digit to sum; then char::from_u32(sum) (or                   *)
(* InvalidCodePointValue).  p counts the chars already taken from `chars`. *)
(***************************************************************************)
RECURSIVE UnicodeLoop(_, _, _, _)
UnicodeLoop(s, p, i, sum) ==
    IF i = 4
    THEN IF from_u32(sum) = -1 THEN SErr("InvalidCodePointValue", p)
         ELSE SOk(from_u32(sum), p)
    ELSE IF ~(p < Len(s)) THEN SErr("UnfinishedEscape", p)
    ELSE LET digit == to_digit16(At(s, p))
         IN  IF digit = -1 THEN SErr("InvalidHexValue", p + 1)
             ELSE UnicodeLoop(s, p + 1, i + 1, sum + Pow16(3 - i) * digit)

unicode_escape(s, p) == UnicodeLoop(s, p, 0, 0)

\* The match on next_char inside `if is_escaping`, with p chars taken so far
\* (next_char included).
escape_arm(s, next_char, p) ==
         IF next_char = Quote THEN SOk(Quote, p)
    ELSE IF next_char = Backslash THEN SOk(Backslash, p)
    ELSE IF next_char = Ch_b THEN SOk(Backspace, p)
    ELSE IF next_char = Ch_f THEN SOk(Dc2, p)
    ELSE IF next_char = Newline THEN SOk(Newline, p)
    ELSE IF next_char = CarriageReturn THEN SOk(CarriageReturn, p)
    ELSE IF next_char = Tab THEN SOk(Tab, p)
    ELSE IF next_char = Ch_u THEN unicode_escape(s, p)
    ELSE SOk(next_char, p)

(***************************************************************************)
(* One iteration of `while let Some(next_char) = chars.next()`, as a       *)
(* function of the loop's state: the new pos, output and is_escaping, or   *)
(* the error the `?` returns.                                              *)
(***************************************************************************)
parse_string_iter(s, p, out, esc) ==
    LET next_char == At(s, p)
    IN  IF esc
        THEN LET r == escape_arm(s, next_char, p + 1)
             IN  IF r.st = "ok"
                 THEN [st |-> "running", pos |-> r.pos, output |-> Append(out, r.ch),
                       is_escaping |-> TRUE, err |-> "none"]
                 ELSE [st |-> "err", pos |-> r.pos, output |-> out,
                       is_escaping |-> esc, err |-> r.err]
        ELSE IF next_char = Backslash
        THEN [st |-> "running", pos |-> p + 1, output |-> out,
              is_escaping |-> TRUE, err |-> "none"]
        ELSE [st |-> "running", pos |-> p + 1, output |-> Append(out, next_char),
              is_escaping |-> FALSE, err |-> "none"]

\* parse_string as the function of s that the loop computes
RECURSIVE ParseStringFrom(_, _, _, _)
ParseStringFrom(s, p, out, esc) ==
    IF ~(p < Len(s)) THEN [st |-> "ok", output |-> out, err |-> "none"]
    ELSE LET r == parse_string_iter(s, p, out, esc)
         IN  IF r.st = "running" THEN ParseStringFrom(s, r.pos, r.output, r.is_escaping)
             ELSE [st |-> "err", output |-> <<>>, err |-> r.err]

parse_string(s) == ParseStringFrom(s, 0, <<>>, FALSE)

(***************************************************************************)
(* The raw texts explored: every text of at most MaxRawLen characters of   *)
(* RawAlphabet, and every text made of an optional 'a', the two characters *)
(* \u and at most MaxTail characters of TailAlphabet.                      *)
(***************************************************************************)
MaxRawLen == 4
MaxTail == 5

RawAlphabet == {Ch_a, Ch_b, Ch_f, Ch_n, Backslash, Quote, Newline}

\* '0', '1', '4', 'D', 'd', 'g'
TailAlphabet == {48, 49, 52, 68, 100, 103}

RawInputs ==
    SeqsUpTo(RawAlphabet, MaxRawLen)
    \cup {p \o <<Backslash, Ch_u>> \o t :
            p \in {<<>>, <<Ch_a>>}, t \in SeqsUpTo(TailAlphabet, MaxTail)}

SIdle ==
    /\ raw = <<>> /\ pos = 0 /\ output = <<>> /\ is_escaping = FALSE
    /\ sstatus = "idle" /\ serr = "none"

\* parse_string, lines 29-31: the state on entry to the while loop
ParseStringInit ==
    /\ raw \in RawInputs
    /\ pos = 0
    /\ output = <<>>
    /\ is_escaping = FALSE
    /\ sstatus = "running"
    /\ serr = "none"

ParseStringStep ==
    /\ sstatus = "running"
    /\ pos < Len(raw)
    /\ LET r == parse_string_iter(raw, pos, output, is_escaping)
       IN  /\ pos' = r.pos
           /\ output' = r.output
           /\ is_escaping' = r.is_escaping
           /\ sstatus' = r.st
           /\ serr' = r.err
    /\ UNCHANGED <<raw, tvars, pvars>>

\* chars.next() is None: Ok(Value::String(output))
ParseStringReturn ==
    /\ sstatus = "running"
    /\ ~(pos < Len(raw))
    /\ sstatus' = "ok"
    /\ UNCHANGED <<raw, pos, output, is_escaping, serr, tvars, pvars>>

(***************************************************************************)
(* Values (src/src/lib.rs).  An Object's HashMap is a function from keys   *)
(* to values.                                                              *)
(***************************************************************************)
VNull == [v |-> "Null"]
VBoolean(b) == [v |-> "Boolean", b |-> b]
VString(s) == [v |-> "String", s |-> s]
VNumber(n) == [v |-> "Number", n |-> n]
VArray(a) == [v |-> "Array", arr |-> a]
VObject(m) == [v |-> "Object", map |-> m]

EmptyMap == [k \in {} |-> VNull]

\* HashMap::insert: a present key's entry is replaced
MapInsert(map, key, value) ==
    [k \in DOMAIN map \cup {key} |-> IF k = key THEN value ELSE map[k]]

NoValue == [v |-> "none"]
POk(value, i) == [st |-> "ok", value |-> value, err |-> "none", index |-> i]
PErr(e, i) == [st |-> "err", value |-> NoValue, err |-> e, index |-> i]
PPanic(i) == [st |-> "panic", value |-> NoValue, err |-> "none", index |-> i]

\* tokens[i] is an ix out of bounds (a panic) unless InBounds(tks, i)
InBounds(tks, i) == i < Len(tks)

RECURSIVE parse_tokens(_, _)
RECURSIVE parse_array(_, _)
RECURSIVE parse_object(_, _)
RECURSIVE ArrayLoop(_, _, _)
RECURSIVE ObjectLoop(_, _, _)

(***************************************************************************)
(* parse_tokens.  `&tokens[*index]` panics past the end of the slice, and  *)
(* the `_ => todo!()` arm panics on the four tks that start no value.   *)
(***************************************************************************)
parse_tokens(tks, ix) ==
    IF ~InBounds(tks, ix) THEN PPanic(ix)
    ELSE LET token == At(tks, ix)
         IN       IF token = TokNull THEN POk(VNull, ix + 1)
             ELSE IF token = TokFalse THEN POk(VBoolean(FALSE), ix + 1)
             ELSE IF token = TokTrue THEN POk(VBoolean(TRUE), ix + 1)
             ELSE IF token.tok = "Number" THEN POk(VNumber(token.num), ix + 1)
             ELSE IF token.tok = "String"
                  THEN LET r == parse_string(token.str)
                       IN  IF r.st = "ok" THEN POk(VString(r.output), ix + 1)
                           ELSE PErr(r.err, ix + 1)
             ELSE IF token = TokLeftCurlyBracket THEN parse_object(tks, ix)
             ELSE IF token = TokLeftSquareBracket THEN parse_array(tks, ix)
             ELSE PPanic(ix)

\* The loop of parse_array from its head, and the statements after it.
ArrayLoop(tks, ix, arr) ==
    LET i == ix + 1
    IN  IF ~InBounds(tks, i) THEN PPanic(i)
        ELSE IF At(tks, i) = TokRightSquareBracket THEN POk(VArray(arr), i + 1)
        ELSE LET r == parse_tokens(tks, i)
             IN  IF r.st # "ok" THEN r
                 ELSE IF ~InBounds(tks, r.index) THEN PPanic(r.index)
                 ELSE LET token == At(tks, r.index)
                          arr2 == Append(arr, r.value)
                      IN  IF token = TokComma THEN ArrayLoop(tks, r.index, arr2)
                          ELSE IF token = TokRightSquareBracket
                               THEN POk(VArray(arr2), r.index + 1)
                          ELSE PErr("ExpectedComma", r.index)

parse_array(tks, ix) == ArrayLoop(tks, ix, <<>>)

\* The loop of parse_object from its head, and the statements after it.
\* The key inserted is s.clone(): the String token's text as it stands.
ObjectLoop(tks, ix, map) ==
    LET i == ix + 1
    IN  IF ~InBounds(tks, i) THEN PPanic(i)
        ELSE IF At(tks, i) = TokRightCurlyBracket THEN POk(VObject(map), i + 1)
        ELSE IF At(tks, i).tok # "String" THEN PErr("ExpectedProperty", i)
        ELSE IF ~InBounds(tks, i + 1) THEN PPanic(i + 1)
        ELSE IF At(tks, i + 1) # TokColon THEN PErr("ExpectedColon", i + 1)
        ELSE LET key == At(tks, i).str
                 r == parse_tokens(tks, i + 2)
             IN  IF r.st # "ok" THEN r
                 ELSE IF ~InBounds(tks, r.index) THEN PPanic(r.index)
                 ELSE LET token == At(tks, r.index)
                          map2 == MapInsert(map, key, r.value)
                      IN  IF token = TokComma THEN ObjectLoop(tks, r.index, map2)
                          ELSE IF token = TokRightCurlyBracket
                               THEN POk(VObject(map2), r.index + 1)
                          ELSE PErr("ExpectedComma", r.index)

parse_object(tks, ix) == ObjectLoop(tks, ix, EmptyMap)

(***************************************************************************)
(* The token slices explored: every sequence of at most MaxTokens tokens   *)
(* of TokenAlphabet, and every well-formed JSON value of at most           *)
(* MaxValueTokens tokens built from ValueLeaves and ValueKeys.  A          *)
(* well-formed value is generated from the grammar together with the value *)
(* tree section 4.2 of the specification assigns to it (`ref`): elements   *)
(* in source order, the last pair of a key kept, keys and strings          *)
(* unescaped by the standard table.                                        *)
(***************************************************************************)
MaxTokens == 4
MaxValueTokens == 9

One == [m |-> 1, e |-> 0]

TokenAlphabet ==
    { TokLeftCurlyBracket, TokRightCurlyBracket, TokLeftSquareBracket,
      TokRightSquareBracket, TokComma, TokColon,
      TokNull, TokNumber(One), TokString(<<Ch_a>>), TokString(<<Backslash, Ch_n>>) }

ValueLeaves == { TokNull, TokNumber(One), TokString(<<Backslash, Ch_n>>) }
ValueKeys == { <<Ch_a>>, <<Backslash, Backslash>> }

\* The character an escape stands for in the table of section 4.2.
RefEscape(ch) ==
         IF ch = Ch_b THEN Backspace
    ELSE IF ch = Ch_f THEN FormFeed
    ELSE IF ch = Ch_n THEN Newline
    ELSE IF ch = 114 THEN CarriageReturn   \* 'r'
    ELSE IF ch = Ch_t THEN Tab
    ELSE ch

\* Unescaping by that table, for texts without \u escapes.
RECURSIVE RefUnescapeFrom(_, _)
RefUnescapeFrom(s, k) ==
    IF k > Len(s) THEN <<>>
    ELSE IF s[k] = Backslash /\ k < Len(s)
         THEN <<RefEscape(s[k + 1])>> \o RefUnescapeFrom(s, k + 2)
    ELSE IF s[k] = Backslash THEN <<>>
    ELSE <<s[k]>> \o RefUnescapeFrom(s, k + 1)

RefUnescape(s) == RefUnescapeFrom(s, 1)

RefLeaf(token) ==
    IF token = TokNull THEN VNull
    ELSE IF token = TokTrue THEN VBoolean(TRUE)
    ELSE IF token = TokFalse THEN VBoolean(FALSE)
    ELSE IF token.tok = "Number" THEN VNumber(token.num)
    ELSE VString(RefUnescape(token.str))

RECURSIVE WfValues(_)
RECURSIVE WfElements(_)
RECURSIVE WfMembers(_)

\* The values of exactly n tokens: [toks, ref]
WfValues(n) ==
    IF n < 1 THEN {}
    ELSE IF n = 1 THEN {[toks |-> <<t>>, ref |-> RefLeaf(t)] : t \in ValueLeaves}
    ELSE IF n = 2 THEN { [toks |-> <<TokLeftSquareBracket, TokRightSquareBracket>>,
                          ref |-> VArray(<<>>)],
                         [toks |-> <<TokLeftCurlyBracket, TokRightCurlyBracket>>,
                          ref |-> VObject(EmptyMap)] }
    ELSE {[toks |-> <<TokLeftSquareBracket>> \o e.toks \o <<TokRightSquareBracket>>,
           ref |-> VArray(e.refs)] : e \in WfElements(n - 2)}
         \cup
         {[toks |-> <<TokLeftCurlyBracket>> \o m.toks \o <<TokRightCurlyBracket>>,
           ref |-> VObject(m.map)] : m \in WfMembers(n - 2)}

\* The non-empty comma-separated lists of values of exactly n tokens: [toks, refs]
WfElements(n) ==
    {[toks |-> x.toks, refs |-> <<x.ref>>] : x \in WfValues(n)}
    \cup
    UNION {{[toks |-> x.toks \o <<TokComma>> \o e.toks, refs |-> <<x.ref>> \o e.refs] :
               x \in WfValues(k), e \in WfElements(n - k - 1)} : k \in 1..(n - 2)}

\* The non-empty comma-separated lists of key : value pairs of exactly n
\* tokens, read right to left so that the last pair of a key is the one kept:
\* [toks, map]
WfMembers(n) ==
    {[toks |-> <<TokString(key), TokColon>> \o x.toks,
      map |-> MapInsert(EmptyMap, RefUnescape(key), x.ref)] :
         key \in ValueKeys, x \in WfValues(n - 2)}
    \cup
    UNION {{[toks |-> <<TokString(key), TokColon>> \o x.toks \o <<TokComma>> \o m.toks,
             map |-> IF RefUnescape(key) \in DOMAIN m.map THEN m.map
                     ELSE MapInsert(m.map, RefUnescape(key), x.ref)] :
               key \in ValueKeys, x \in WfValues(k), m \in WfMembers(n - k - 3)} :
           k \in 1..(n - 4)}

WellFormed == UNION {WfValues(n) : n \in 1..MaxValueTokens}

ParseInputs ==
    SeqsUpTo(TokenAlphabet, MaxTokens) \cup {w.toks : w \in WellFormed}

PIdle ==
    /\ ptokens = <<>> /\ pindex = 0 /\ pstatus = "idle"
    /\ presult = NoValue /\ perr = "none"

\* The call parse_tokens(&input, &mut 0) about to be made
ParseTokensInit ==
    /\ ptokens \in ParseInputs
    /\ pindex = 0
    /\ pstatus = "running"
    /\ presult = NoValue
    /\ perr = "none"

\* The call parse_tokens(tokens, index) from entry to its return or abort
ParseTokensCall ==
    /\ pstatus = "running"
    /\ LET r == parse_tokens(ptokens, pindex)
       IN  /\ pstatus' = r.st
           /\ presult' = r.value
           /\ perr' = r.err
           /\ pindex' = r.index
    /\ UNCHANGED <<ptokens, tvars, svars>>

(***************************************************************************)
(* Specifications: one per entry point, and the three together.            *)
(***************************************************************************)
TokenizeNext == TokenizeStep \/ TokenizeReturn
InitTokenize == TokenizeInit /\ SIdle /\ PIdle
SpecTokenize == InitTokenize /\ [][TokenizeNext]_vars

ParseStringNext == ParseStringStep \/ ParseStringReturn
InitParseString == TIdle /\ ParseStringInit /\ PIdle
SpecParseString == InitParseString /\ [][ParseStringNext]_vars

ParseTokensNext == ParseTokensCall
InitParseTokens == TIdle /\ SIdle /\ ParseTokensInit
SpecParseTokens == InitParseTokens /\ [][ParseTokensNext]_vars

Init == InitTokenize \/ InitParseString \/ InitParseTokens

Next == TokenizeNext \/ ParseStringNext \/ ParseTokensNext

Spec == Init /\ [][Next]_vars

(***************************************************************************)
(*                              The claims                                 *)
(***************************************************************************)

\* The token a valid lexical unit stands for.
UnitToken(u) ==
         IF u = <<LBrace>> THEN TokLeftCurlyBracket
    ELSE IF u = <<RBrace>> THEN TokRightCurlyBracket
    ELSE IF u = <<LBracket>> THEN TokLeftSquareBracket
    ELSE IF u = <<RBracket>> THEN TokRightSquareBracket
    ELSE IF u = <<Comma>> THEN TokComma
    ELSE IF u = <<Colon>> THEN TokColon
    ELSE IF u = KwNull THEN TokNull
    ELSE IF u = KwTrue THEN TokTrue
    ELSE IF u = KwFalse THEN TokFalse
    ELSE IF u = <<Digit0 + 1>> THEN TokNumber(One)
    ELSE TokString(<<Ch_a>>)

IsNumberUnit(u) == u = <<Digit0 + 1>>

\* The concatenations of valid units in which no number directly follows a
\* number (two adjacent digit units are one number), with their tokens.
ValidConcats ==
    {[inp |-> Concat(us), toks |-> [k \in 1..Len(us) |-> UnitToken(us[k])]] :
        us \in {x \in SeqsUpTo(ValidUnits, MaxUnits) :
                   \A k \in 1..(Len(x) - 1) :
                       ~(IsNumberUnit(x[k]) /\ IsNumberUnit(x[k + 1]))}}

TokenizeDone == tstatus \in {"ok", "err", "panic"}

\* C1: on a concatenation of valid lexical units tokenize returns exactly one
\* token per unit, in source order; the character after a keyword, a number
\* or a string is tokenized, never skipped.
C1_OneTokenPerUnit ==
    TokenizeDone =>
        \A c \in ValidConcats :
            input = c.inp => (tstatus = "ok" /\ tokens = c.toks)

\* The keyword that begins with ch, and its token.
KeywordOf(ch) == IF ch = Ch_n THEN KwNull ELSE IF ch = Ch_t THEN KwTrue ELSE KwFalse
KeywordToken(ch) == IF ch = Ch_n THEN TokNull ELSE IF ch = Ch_t THEN TokTrue ELSE TokFalse

\* The cursor stands (after the whitespace before it) on character ch.
CursorOn(chs) ==
    /\ tstatus = "running"
    /\ index < Len(input)
    /\ SkipWhitespace(input, index) # -1
    /\ At(input, SkipWhitespace(input, index)) \in chs

\* C2: with the cursor on 'n', 't' or 'f' the keyword is matched at the
\* cursor: present there, its token is emitted and the cursor moves past
\* exactly that keyword; absent there, tokenize fails with
\* UnfinishedLiteralValue, whatever keywords stand elsewhere in the input.
C2_KeywordMatchedAtCursor ==
    [][CursorOn({Ch_n, Ch_t, Ch_f}) =>
          LET cur == SkipWhitespace(input, index)
              ch == At(input, cur)
          IN  IF MatchesAt(input, KeywordOf(ch), cur)
              THEN /\ tstatus' = "running"
                   /\ tokens' = Append(tokens, KeywordToken(ch))
                   /\ index' = cur + Len(KeywordOf(ch))
              ELSE /\ tstatus' = "err"
                   /\ terr' = "UnfinishedLiteralValue"]_vars

RECURSIVE StripTrailingWhitespace(_)
StripTrailingWhitespace(chars) ==
    IF chars # <<>> /\ is_ascii_whitespace(chars[Len(chars)])
    THEN StripTrailingWhitespace(SubSeq(chars, 1, Len(chars) - 1))
    ELSE chars

\* C3: the end of the input reached while skipping whitespace is not an
\* error: an input that tokenizes to T, followed by whitespace, tokenizes to T
\* (and whitespace alone to the empty sequence).
C3_TrailingWhitespaceIsNotAnError ==
    TokenizeDone =>
        LET base == StripTrailingWhitespace(input)
        IN  (base # input /\ tokenize(base).st = "ok")
                => (tstatus = "ok" /\ tokens = tokenize(base).tokens)

\* C4: tokenize is total (it returns tokens or a TokenizeError and never reads
\* at or past the end of the input); a '-' that is the input's last character
\* fails with CharNotRecognized.
C4_TokenizeIsTotal ==
    [][/\ tstatus' # "panic"
       /\ (CursorOn({Minus}) /\ SkipWhitespace(input, index) = Len(input) - 1)
             => (tstatus' = "err" /\ terr' = "CharNotRecognized")]_vars

\* An iteration of parse_string's loop is about to run.
StringStepReady == sstatus = "running" /\ pos < Len(raw)

\* C6: an escape consumes only the backslash and its escape character(s) and
\* leaves the escaping flag false; a character that no unconsumed backslash
\* precedes is copied to the output unchanged (a backslash opens an escape).
C6_EscapeEndsWithItsCharacter ==
    [][(StringStepReady /\ sstatus' = "running") =>
          IF is_escaping THEN ~is_escaping'
          ELSE IF At(raw, pos) = Backslash THEN is_escaping' /\ output' = output
          ELSE ~is_escaping' /\ output' = Append(output, At(raw, pos))]_vars

\* The character after the first backslash of the text is about to be read.
FirstEscapeReady ==
    /\ StringStepReady
    /\ is_escaping
    /\ pos >= 1
    /\ At(raw, pos - 1) = Backslash
    /\ \A k \in 0..(pos - 2) : At(raw, k) # Backslash

\* C7: an escape is mapped by the letter after the backslash: \" to a double
\* quote, \\ to a backslash, \b to U+0008, \f to U+000C, \n to U+000A, \r to
\* U+000D, \t to U+0009; any other character passes through unchanged.
C7_EscapeMappedByLetter ==
    [][(FirstEscapeReady /\ At(raw, pos) # Ch_u) =>
          /\ sstatus' = "running"
          /\ output' = Append(output, RefEscape(At(raw, pos)))]_vars

\* The value of a hexadecimal digit, -1 for any other character.
HexDigitValue(ch) ==
    IF ch \in 48..57 THEN ch - 48
    ELSE IF ch \in 65..70 THEN ch - 55
    ELSE IF ch \in 97..102 THEN ch - 87
    ELSE -1

\* A \u escape is about to be read: the flag is set and the next character is 'u'.
UnicodeEscapeReady == StringStepReady /\ is_escaping /\ At(raw, pos) = Ch_u

\* The characters after the 'u', at most 4 of them.
UnicodeDigits == SubSeq(raw, pos + 2, IF pos + 5 <= Len(raw) THEN pos + 5 ELSE Len(raw))

UnicodeValue(d) ==
    ((HexDigitValue(d[1]) * 16 + HexDigitValue(d[2])) * 16 + HexDigitValue(d[3])) * 16
        + HexDigitValue(d[4])

IsSurrogate(n) == n \in 55296..57343

StringFails(e) == sstatus' = "err" /\ serr' = e

\* The escape yields the character of code point n and consumes u and 4 digits.
UnicodeYields(n) ==
    /\ sstatus' = "running"
    /\ output' = Append(output, n)
    /\ pos' = pos + 5

\* C8 as stated: 4 hex digits after \u give the character of that code point;
\* a non-hex character among the 4 fails with InvalidHexValue; fewer than 4
\* characters remaining fails with UnfinishedEscape; a surrogate value fails
\* with InvalidCodePointValue; a failure returns no Value.
C8_UnicodeEscapeAsStated ==
    [][UnicodeEscapeReady =>
          LET d == UnicodeDigits
          IN  IF Len(d) < 4 THEN StringFails("UnfinishedEscape")
              ELSE IF \E k \in 1..4 : HexDigitValue(d[k]) = -1
                   THEN StringFails("InvalidHexValue")
              ELSE IF IsSurrogate(UnicodeValue(d))
                   THEN StringFails("InvalidCodePointValue")
              ELSE UnicodeYields(UnicodeValue(d))]_vars

\* C8 (amended): the up to 4 characters after \u are read in order.  A
\* character among them that is not a hex digit fails with InvalidHexValue,
\* also when fewer than 4 characters remain; fewer than 4 characters, all hex
\* digits, fail with UnfinishedEscape; 4 hex digits of a surrogate value fail
\* with InvalidCodePointValue; otherwise the output receives the character of
\* that code point.  A failure returns no Value: the call has ended with Err.
C8_UnicodeEscape ==
    [][UnicodeEscapeReady =>
          LET d == UnicodeDigits
          IN  IF \E k \in 1..Len(d) : HexDigitValue(d[k]) = -1
              THEN StringFails("InvalidHexValue")
              ELSE IF Len(d) < 4 THEN StringFails("UnfinishedEscape")
              ELSE IF IsSurrogate(UnicodeValue(d))
                   THEN StringFails("InvalidCodePointValue")
              ELSE UnicodeYields(UnicodeValue(d))]_vars

\* The text \u0041 has been unescaped to "A".
C8_Witness ==
    /\ raw = <<Backslash, Ch_u, 48, 48, 52, 49>>
    /\ sstatus = "ok"
    /\ output = <<65>>

ParseDone == pstatus \in {"ok", "err", "panic"}

IsProperPrefix(p, s) == Len(p) < Len(s) /\ SubSeq(s, 1, Len(p)) = p

\* The slice ends where a well-formed value still needs a token.
Exhausted == \E w \in WellFormed : IsProperPrefix(ptokens, w.toks)

\* The slice begins with a token that starts no value.
StartsNoValue ==
    /\ ptokens # <<>>
    /\ ptokens[1] \in {TokRightCurlyBracket, TokRightSquareBracket, TokComma, TokColon}

\* C5: parse_tokens from cursor 0 is total: it never indexes past the end of
\* the slice and never aborts, and it returns a TokenParseError when the
\* slice is exhausted where a token is required or a token that starts no
\* value stands where a value is expected.
C5_ParseTokensIsTotal ==
    ParseDone =>
        /\ pstatus # "panic"
        /\ (Exhausted \/ StartsNoValue) => pstatus = "err"

\* v with the text of every String in it blanked (object keys are kept).
RECURSIVE BlankStrings(_)
BlankStrings(val) ==
    IF val.v = "String" THEN VString(<<>>)
    ELSE IF val.v = "Array"
         THEN VArray([k \in DOMAIN val.arr |-> BlankStrings(val.arr[k])])
    ELSE IF val.v = "Object"
         THEN VObject([k \in DOMAIN val.map |-> BlankStrings(val.map[k])])
    ELSE val

\* C9: for a well-formed object, parse_object returns a mapping whose keys are
\* the unescaped texts of the key tokens, each key mapped to the value of the
\* last pair that carries it.  (What a String value unescapes to is C6's and
\* C7's subject: the values are compared with their strings blanked.)
C9_KeysUnescapedLastPairWins ==
    ParseDone =>
        \A w \in WellFormed :
            (ptokens = w.toks /\ w.ref.v = "Object") =>
                /\ pstatus = "ok"
                /\ presult.v = "Object"
                /\ DOMAIN presult.map = DOMAIN w.ref.map
                /\ \A k \in DOMAIN w.ref.map :
                       BlankStrings(presult.map[k]) = BlankStrings(w.ref.map[k])

\* An array's first element is followed by neither ',' nor ']'.
ElementThenOther(w) ==
    /\ Len(ptokens) >= Len(w.toks) + 2
    /\ ptokens[1] = TokLeftSquareBracket
    /\ SubSeq(ptokens, 2, Len(w.toks) + 1) = w.toks
    /\ ptokens[Len(w.toks) + 2] \notin {TokComma, TokRightSquareBracket}

\* C10: for a well-formed value, nested to any depth within the bound,
\* parse_tokens from cursor 0 returns the corresponding value tree (elements
\* in source order, [ ] and { } empty) and leaves the cursor one past the
\* value's last token; a token other than ',' or ']' after an element fails
\* with ExpectedComma.
C10_ValueTreeAndCursor ==
    ParseDone =>
        \A w \in WellFormed :
            /\ ptokens = w.toks =>
                  (pstatus = "ok" /\ presult = w.ref /\ pindex = Len(ptokens))
            /\ ElementThenOther(w) => (pstatus = "err" /\ perr = "ExpectedComma")
=============================================================================
